---- MODULE Spec2Model ----
(***************************************************************************)
(* The access-log analyzer of task2_log_analyzer/log_analyzer.py: the line *)
(* grammar LOG_PATTERN and parse_log_line, the timestamp normaliser        *)
(* _try_parse_apache_time, and analyze (the aggregation loop, the anomaly  *)
(* detector and the report).  Text is modelled as TLA+ strings, read one   *)
(* character at a time; a Counter is a sequence of <<key, count>> pairs in *)
(* insertion order; a float ratio a / b is the pair <<a, b>>.              *)
(***************************************************************************)
EXTENDS Integers, Sequences, FiniteSets, TLC

(***************************************************************************)
(* Characters and the regular-expression matcher (Python's re, as used by  *)
(* LOG_PATTERN.match and by datetime.strptime).                            *)
(***************************************************************************)

Char(s, i) == SubSeq(s, i, i)

Whitespace == {" ", "\t", "\n", "\r", "\f"}

Digits == {"0", "1", "2", "3", "4", "5", "6", "7", "8", "9"}

DigitValue(c) ==
    CASE c = "0" -> 0 [] c = "1" -> 1 [] c = "2" -> 2 [] c = "3" -> 3
      [] c = "4" -> 4 [] c = "5" -> 5 [] c = "6" -> 6 [] c = "7" -> 7
      [] c = "8" -> 8 [] c = "9" -> 9

DigitChar(n) ==
    CASE n = 0 -> "0" [] n = 1 -> "1" [] n = 2 -> "2" [] n = 3 -> "3"
      [] n = 4 -> "4" [] n = 5 -> "5" [] n = 6 -> "6" [] n = 7 -> "7"
      [] n = 8 -> "8" [] n = 9 -> "9"

\* str.lower() on ASCII text.
LowerChar(c) ==
    CASE c = "A" -> "a" [] c = "B" -> "b" [] c = "C" -> "c" [] c = "D" -> "d"
      [] c = "E" -> "e" [] c = "F" -> "f" [] c = "G" -> "g" [] c = "H" -> "h"
      [] c = "I" -> "i" [] c = "J" -> "j" [] c = "K" -> "k" [] c = "L" -> "l"
      [] c = "M" -> "m" [] c = "N" -> "n" [] c = "O" -> "o" [] c = "P" -> "p"
      [] c = "Q" -> "q" [] c = "R" -> "r" [] c = "S" -> "s" [] c = "T" -> "t"
      [] c = "U" -> "u" [] c = "V" -> "v" [] c = "W" -> "w" [] c = "X" -> "x"
      [] c = "Y" -> "y" [] c = "Z" -> "z" [] OTHER -> c

RECURSIVE lower(_)
lower(s) == IF Len(s) = 0 THEN "" ELSE LowerChar(Char(s, 1)) \o lower(Tail(s))

\* Whether character c belongs to the character class cls.
InClass(cls, c) ==
    CASE cls.t = "space"    -> c \in Whitespace
      [] cls.t = "nonspace" -> c \notin Whitespace
      [] cls.t = "digit"    -> c \in Digits
      [] cls.t = "not"      -> c \notin cls.chars
      [] cls.t = "in"       -> c \in cls.chars

\* Constructors of the pattern syntax.
Cls(name)     == [t |-> name]
NotIn(chars)  == [t |-> "not", chars |-> chars]
OneOf(chars)  == [t |-> "in", chars |-> chars]
Lit(c)        == [t |-> "in", chars |-> {c}]
Cat(items)    == [t |-> "cat", items |-> items]
Alt(items)    == [t |-> "alt", items |-> items]
Plus(r)       == [t |-> "plus", r |-> r]
Opt(r)        == [t |-> "opt", r |-> r]
Times(r, n)   == [t |-> "times", r |-> r, n |-> n]
Group(name, r) == [t |-> "group", name |-> name, r |-> r]
\* The lower-case word w, matched ignoring case (re.IGNORECASE).
Word(w)       == [t |-> "word", w |-> w]

(***************************************************************************)
(* Match(re, s, m): the ways pattern re matches string s from match state  *)
(* m = [pos, caps] (pos the next character to read, caps the groups set so *)
(* far), in the order a backtracking matcher tries them: greedy operators  *)
(* try the longer match first, an alternation its branches left to right.  *)
(* MatchEach continues every state of ms with re, MatchCat with the items  *)
(* of a concatenation in turn, MatchAlt tries the branches in turn,        *)
(* MatchMore is the greedy repetition and Capture sets a group.            *)
(***************************************************************************)
RECURSIVE Match(_, _, _)
RECURSIVE MatchEach(_, _, _)
RECURSIVE MatchCat(_, _, _)
RECURSIVE MatchAlt(_, _, _)
RECURSIVE MatchMore(_, _, _, _)
RECURSIVE Capture(_, _, _, _)

MatchEach(re, s, ms) ==
    IF ms = <<>> THEN <<>>
    ELSE Match(re, s, Head(ms)) \o MatchEach(re, s, Tail(ms))

MatchCat(items, s, ms) ==
    IF items = <<>> \/ ms = <<>> THEN ms
    ELSE MatchCat(Tail(items), s, MatchEach(Head(items), s, ms))

MatchAlt(items, s, m) ==
    IF items = <<>> THEN <<>>
    ELSE Match(Head(items), s, m) \o MatchAlt(Tail(items), s, m)

\* re = Plus(r), and ms the ways r matched once more from position from:
\* each is first continued with further repetitions, then taken as it is.
MatchMore(re, s, from, ms) ==
    IF ms = <<>> THEN <<>>
    ELSE (IF Head(ms).pos > from THEN Match(re, s, Head(ms)) ELSE <<>>)
         \o <<Head(ms)>> \o MatchMore(re, s, from, Tail(ms))

Capture(name, s, from, ms) ==
    IF ms = <<>> THEN <<>>
    ELSE <<[pos  |-> Head(ms).pos,
            caps |-> [Head(ms).caps EXCEPT
                        ![name] = SubSeq(s, from, Head(ms).pos - 1)]]>>
         \o Capture(name, s, from, Tail(ms))

Match(re, s, m) ==
    CASE re.t = "cat"   -> MatchCat(re.items, s, <<m>>)
      [] re.t = "alt"   -> MatchAlt(re.items, s, m)
      [] re.t = "plus"  -> MatchMore(re, s, m.pos, Match(re.r, s, m))
      [] re.t = "opt"   -> Match(re.r, s, m) \o <<m>>
      [] re.t = "times" ->
            IF re.n = 0 THEN <<m>>
            ELSE MatchCat(<<re.r, Times(re.r, re.n - 1)>>, s, <<m>>)
      [] re.t = "group" -> Capture(re.name, s, m.pos, Match(re.r, s, m))
      [] re.t = "word"  ->
            IF m.pos + Len(re.w) - 1 <= Len(s)
               /\ lower(SubSeq(s, m.pos, m.pos + Len(re.w) - 1)) = re.w
            THEN <<[pos |-> m.pos + Len(re.w), caps |-> m.caps]>>
            ELSE <<>>
      [] OTHER ->
            IF m.pos <= Len(s) /\ InClass(re, Char(s, m.pos))
            THEN <<[pos |-> m.pos + 1, caps |-> m.caps]>>
            ELSE <<>>

\* Python's None.
None == [none |-> TRUE]

\* re's Pattern.match: the first way the pattern matches s from its first
\* character, or None; groups the match did not set are None.
FirstMatch(re, names, s) ==
    LET all == Match(re, s, [pos |-> 1, caps |-> [n \in names |-> None]])
    IN  IF all = <<>> THEN None ELSE Head(all)

(***************************************************************************)
(* str and int helpers of the Python runtime.                              *)
(***************************************************************************)

\* str.strip(): leading and trailing whitespace removed.
RECURSIVE lstrip(_)
lstrip(s) ==
    IF Len(s) > 0 /\ Char(s, 1) \in Whitespace THEN lstrip(Tail(s)) ELSE s

RECURSIVE rstrip(_)
rstrip(s) ==
    IF Len(s) > 0 /\ Char(s, Len(s)) \in Whitespace
    THEN rstrip(SubSeq(s, 1, Len(s) - 1)) ELSE s

strip(s) == rstrip(lstrip(s))

\* s[a:b] with Python's 0-based, end-exclusive, clamped indices (a, b >= 0).
Slice(s, a, b) ==
    LET hi == IF b > Len(s) THEN Len(s) ELSE b
    IN  IF a >= hi THEN "" ELSE SubSeq(s, a + 1, hi)

\* Whether s is one or more decimal digits.
IsDigits(s) == Len(s) > 0 /\ \A i \in 1..Len(s) : Char(s, i) \in Digits

\* int(s) for a string of decimal digits.
RECURSIVE DigitsValue(_)
DigitsValue(s) ==
    IF Len(s) = 0 THEN 0
    ELSE 10 * DigitsValue(SubSeq(s, 1, Len(s) - 1)) + DigitValue(Char(s, Len(s)))

\* str(n) for an int n >= 0: its decimal digits, no leading zeros.
RECURSIVE str(_)
str(n) == IF n < 10 THEN DigitChar(n) ELSE str(n \div 10) \o DigitChar(n % 10)

\* k.startswith(prefixes) for one-character prefixes.
startswith(k, prefixes) == Len(k) > 0 /\ Char(k, 1) \in prefixes

\* snippet in text: substring containment.
Contains(text, snippet) ==
    \E i \in 1..(Len(text) - Len(snippet) + 1) :
        SubSeq(text, i, i + Len(snippet) - 1) = snippet

(***************************************************************************)
(* The line grammar and parse_log_line.                                    *)
(***************************************************************************)

LogGroups == {"ip", "time", "method", "path", "proto", "status", "size"}

LOG_PATTERN ==
    Cat(<< Group("ip", Plus(Cls("nonspace"))),
           Plus(Cls("space")), Plus(Cls("nonspace")),
           Plus(Cls("space")), Plus(Cls("nonspace")),
           Plus(Cls("space")), Lit("["),
           Group("time", Plus(NotIn({"]"}))),
           Lit("]"), Plus(Cls("space")), Lit("\""),
           Group("method", Plus(Cls("nonspace"))),
           Plus(Cls("space")),
           Group("path", Plus(Cls("nonspace"))),
           Opt(Cat(<< Plus(Cls("space")), Group("proto", Plus(NotIn({"\""}))) >>)),
           Lit("\""), Plus(Cls("space")),
           Group("status", Times(Cls("digit"), 3)),
           Plus(Cls("space")),
           Group("size", Plus(Cls("nonspace"))) >>)

SUSPICIOUS_PATH_SNIPPETS ==
    <<"/admin", "/wp-admin", "/wp-login", "/phpmyadmin", "/.env", "/login">>

\* path.split("?", 1)[0]: the path up to its first "?".
RECURSIVE _strip_query(_)
_strip_query(path) ==
    IF Len(path) = 0 \/ Char(path, 1) = "?" THEN ""
    ELSE Char(path, 1) \o _strip_query(Tail(path))

\* int(value) of Python for a size field: an optional sign, then digits with
\* single underscores allowed between them; None where int raises ValueError.
IntLiteral ==
    Cat(<< Opt(OneOf({"+", "-"})), Group("digits",
           Cat(<< Plus(Cls("digit")),
                  Opt(Plus(Cat(<< Opt(Lit("_")), Plus(Cls("digit")) >>))) >>)) >>)

RECURSIVE DropUnderscores(_)
DropUnderscores(s) ==
    IF Len(s) = 0 THEN ""
    ELSE (IF Char(s, 1) = "_" THEN "" ELSE Char(s, 1)) \o DropUnderscores(Tail(s))

_parse_size(value) ==
    IF value = "-" THEN None
    ELSE LET all  == Match(IntLiteral, value,
                           [pos |-> 1, caps |-> [n \in {"digits"} |-> None]])
             full == {k \in DOMAIN all : all[k].pos = Len(value) + 1}
         IN  IF full = {} THEN None
             ELSE LET n == DigitsValue(DropUnderscores(
                               all[CHOOSE k \in full : TRUE].caps.digits))
                  IN  IF Char(value, 1) = "-" THEN 0 - n ELSE n

parse_log_line(line) ==
    LET match == FirstMatch(LOG_PATTERN, LogGroups, strip(line))
    IN  IF match = None THEN None
        ELSE [ip            |-> match.caps.ip,
              timestamp_raw |-> match.caps.time,
              method        |-> match.caps.method,
              path          |-> match.caps.path,
              status        |-> DigitsValue(match.caps.status),
              size          |-> _parse_size(match.caps.size)]


(***************************************************************************)
(* _try_parse_apache_time: datetime.strptime(value, "%d/%b/%Y:%H:%M:%S %z")*)
(* or None where strptime raises ValueError.  A datetime is the record of  *)
(* its fields, its UTC offset kept as seconds plus microseconds.           *)
(***************************************************************************)

TimeGroups == {"d", "b", "Y", "H", "M", "S", "z"}

a_month == <<"jan", "feb", "mar", "apr", "may", "jun",
             "jul", "aug", "sep", "oct", "nov", "dec">>

Digit(lo, hi) == OneOf({DigitChar(n) : n \in lo..hi})

\* The regular expression strptime compiles the format to.
TimeFormat ==
    Cat(<< Group("d", Alt(<< Cat(<<Lit("3"), Digit(0, 1)>>),
                             Cat(<<Digit(1, 2), Cls("digit")>>),
                             Cat(<<Lit("0"), Digit(1, 9)>>),
                             Digit(1, 9),
                             Cat(<<Lit(" "), Digit(1, 9)>>) >>)),
           Lit("/"),
           Group("b", Alt([k \in DOMAIN a_month |-> Word(a_month[k])])),
           Lit("/"),
           Group("Y", Times(Cls("digit"), 4)),
           Lit(":"),
           Group("H", Alt(<< Cat(<<Lit("2"), Digit(0, 3)>>),
                             Cat(<<Digit(0, 1), Cls("digit")>>),
                             Cls("digit") >>)),
           Lit(":"),
           Group("M", Alt(<< Cat(<<Digit(0, 5), Cls("digit")>>), Cls("digit") >>)),
           Lit(":"),
           Group("S", Alt(<< Cat(<<Lit("6"), Digit(0, 1)>>),
                             Cat(<<Digit(0, 5), Cls("digit")>>),
                             Cls("digit") >>)),
           Plus(Cls("space")),
           Group("z", Alt(<<
               Cat(<< OneOf({"+", "-"}), Cls("digit"), Cls("digit"),
                      Opt(Lit(":")), Digit(0, 5), Cls("digit"),
                      Opt(Cat(<< Opt(Lit(":")), Digit(0, 5), Cls("digit"),
                                 Opt(Cat(<< Lit("."), Cls("digit"),
                                            Opt(Cls("digit")), Opt(Cls("digit")),
                                            Opt(Cls("digit")), Opt(Cls("digit")),
                                            Opt(Cls("digit")) >>)) >>)) >>),
               Lit("Z") >>)) >>)

IsLeap(y) == y % 4 = 0 /\ (y % 100 # 0 \/ y % 400 = 0)

DaysInMonth(y, m) ==
    CASE m \in {4, 6, 9, 11} -> 30
      [] m = 2 -> (IF IsLeap(y) THEN 29 ELSE 28)
      [] OTHER -> 31

\* The days of the year before the first of month m.
DaysBeforeMonth(y, m) ==
    <<0, 31, 59, 90, 120, 151, 181, 212, 243, 273, 304, 334>>[m]
    + (IF m > 2 /\ IsLeap(y) THEN 1 ELSE 0)

\* date.toordinal(): day 1 is 1 January of year 1.
toordinal(y, m, d) ==
    (y - 1) * 365 + (y - 1) \div 4 - (y - 1) \div 100 + (y - 1) \div 400
    + DaysBeforeMonth(y, m) + d

\* The %z field: [seconds, microseconds] of the offset, or None where
\* strptime raises ValueError.
RECURSIVE ZeroPad(_, _)
ZeroPad(s, width) == IF Len(s) >= width THEN s ELSE ZeroPad(s \o "0", width)

ParseOffset(zraw) ==
    IF zraw = "Z" THEN [seconds |-> 0, micros |-> 0]
    ELSE
      LET colon1 == Char(zraw, 4) = ":"
          z1     == IF colon1 THEN Slice(zraw, 0, 3) \o Slice(zraw, 4, Len(zraw))
                    ELSE zraw
          bad    == colon1 /\ Len(z1) > 5 /\ Char(z1, 6) # ":"
          z      == IF colon1 /\ Len(z1) > 5
                    THEN Slice(z1, 0, 5) \o Slice(z1, 6, Len(z1)) ELSE z1
          secs   == Slice(z, 5, 7)
          rem    == Slice(z, 8, Len(z))
          sign   == IF Char(z, 1) = "-" THEN 0 - 1 ELSE 1
      IN  IF bad \/ (secs # "" /\ ~IsDigits(secs)) THEN None
          ELSE [seconds |-> sign * (DigitsValue(Slice(z, 1, 3)) * 3600
                                    + DigitsValue(Slice(z, 3, 5)) * 60
                                    + DigitsValue(secs)),
                micros  |-> sign * DigitsValue(ZeroPad(rem, 6))]

\* The month number of a matched %b field.
MonthIndex(b) == CHOOSE k \in DOMAIN a_month : a_month[k] = lower(b)

_try_parse_apache_time(value) ==
    LET found == FirstMatch(TimeFormat, TimeGroups, value)
    IN  IF found = None THEN None
        ELSE IF found.pos # Len(value) + 1 THEN None
        ELSE
          LET g      == found.caps
              year   == DigitsValue(g.Y)
              month  == MonthIndex(g.b)
              day    == DigitsValue(lstrip(g.d))
              second == DigitsValue(g.S)
              off    == ParseOffset(g.z)
          IN  IF off = None THEN None
              ELSE IF year < 1 \/ day > DaysInMonth(year, month) THEN None
              ELSE IF second > 59 THEN None
              ELSE IF off.seconds >= 86400 \/ off.seconds <= 0 - 86400 THEN None
              ELSE [year |-> year, month |-> month, day |-> day,
                    hour |-> DigitsValue(g.H), minute |-> DigitsValue(g.M),
                    second |-> second,
                    utcoffset |-> off]

\* The instant of an aware datetime, as <<days, seconds, microseconds>> of
\* UTC: the local fields less the offset, normalised.
Instant(dt) ==
    LET us    == 0 - dt.utcoffset.micros
        secs  == dt.hour * 3600 + dt.minute * 60 + dt.second
                 - dt.utcoffset.seconds + (IF us < 0 THEN 0 - 1 ELSE 0)
        days  == toordinal(dt.year, dt.month, dt.day)
    IN  << days + (IF secs < 0 THEN 0 - 1 ELSE IF secs >= 86400 THEN 1 ELSE 0),
           (secs + 86400) % 86400,
           (us + 1000000) % 1000000 >>

\* a <= b where the code has a < b.
NotAfter(a, b) ==
    \E x \in {Instant(a)}, y \in {Instant(b)} :
        \/ x[1] < y[1]
        \/ x[1] = y[1] /\ x[2] < y[2]
        \/ x[1] = y[1] /\ x[2] = y[2] /\ x[3] <= y[3]

\* a < b on aware datetimes: their instants compared.
Before(a, b) ==
    \E x \in {Instant(a)}, y \in {Instant(b)} :
        \/ x[1] < y[1]
        \/ x[1] = y[1] /\ x[2] < y[2]
        \/ x[1] = y[1] /\ x[2] = y[2] /\ x[3] < y[3]


\* str(n) left-padded with zeros to width digits ("%02d", "%04d", "%06d").
RECURSIVE Padded(_, _)
Padded(text, width) == IF Len(text) >= width THEN text ELSE Padded("0" \o text, width)

\* datetime.isoformat() of an aware datetime with no microsecond field.
isoformat(dt) ==
    LET off  == dt.utcoffset
        neg  == off.seconds < 0 \/ off.micros < 0
        secs == IF off.seconds < 0 THEN 0 - off.seconds ELSE off.seconds
        us   == IF off.micros < 0 THEN 0 - off.micros ELSE off.micros
        ss   == secs % 60
    IN  Padded(str(dt.year), 4) \o "-" \o Padded(str(dt.month), 2) \o "-"
        \o Padded(str(dt.day), 2) \o "T" \o Padded(str(dt.hour), 2) \o ":"
        \o Padded(str(dt.minute), 2) \o ":" \o Padded(str(dt.second), 2)
        \o (IF neg THEN "-" ELSE "+")
        \o Padded(str(secs \div 3600), 2) \o ":" \o Padded(str((secs \div 60) % 60), 2)
        \o (IF ss # 0 \/ us # 0 THEN ":" \o Padded(str(ss), 2) ELSE "")
        \o (IF us # 0 THEN "." \o Padded(str(us), 6) ELSE "")

(***************************************************************************)
(* collections.Counter: <<key, count>> pairs in the order the keys were    *)
(* first counted.                                                          *)
(***************************************************************************)

Counter == <<>>

HasKey(c, key) == \E i \in DOMAIN c : c[i][1] = key

\* c.get(key, 0), and c[key] of a Counter.
Get(c, key) ==
    IF HasKey(c, key) THEN c[CHOOSE i \in DOMAIN c : c[i][1] = key][2] ELSE 0

\* c[key] = 1 where the code has c[key] += 1.
IncAssigns(c, key) ==
    IF HasKey(c, key)
    THEN [c EXCEPT ![CHOOSE i \in DOMAIN c : c[i][1] = key][2] = 1]
    ELSE Append(c, <<key, 1>>)

\* c[key] += 1
Inc(c, key) ==
    IF HasKey(c, key)
    THEN [c EXCEPT ![CHOOSE i \in DOMAIN c : c[i][1] = key][2] = @ + 1]
    ELSE Append(c, <<key, 1>>)

\* sorted(items, key=itemgetter(1), reverse=True): a stable sort, so items of
\* equal count keep their order.  InsertDesc puts x after every item whose
\* count is at least its own; InsertDescUnstable, the sort that is not
\* stable, puts it before the items of its own count.
RECURSIVE InsertDescUnstable(_, _)
InsertDescUnstable(sorted, x) ==
    IF sorted = <<>> THEN <<x>>
    ELSE IF Head(sorted)[2] > x[2]
         THEN <<Head(sorted)>> \o InsertDescUnstable(Tail(sorted), x)
    ELSE <<x>> \o sorted

RECURSIVE InsertDesc(_, _)
InsertDesc(sorted, x) ==
    IF sorted = <<>> THEN <<x>>
    ELSE IF Head(sorted)[2] >= x[2] THEN <<Head(sorted)>> \o InsertDesc(Tail(sorted), x)
    ELSE <<x>> \o sorted

RECURSIVE SortedDesc(_)
SortedDesc(items) ==
    IF items = <<>> THEN <<>>
    ELSE InsertDesc(SortedDesc(SubSeq(items, 1, Len(items) - 1)), items[Len(items)])

\* seq[:n + 1] where the code has seq[:n].
TakeOneMore(seq, n) ==
    IF n + 1 <= 0 THEN <<>> ELSE IF n + 1 >= Len(seq) THEN seq ELSE SubSeq(seq, 1, n + 1)

\* seq[:n] for n >= 0, and the empty list for n < 0 (heapq.nlargest).
Take(seq, n) ==
    IF n <= 0 THEN <<>> ELSE IF n >= Len(seq) THEN seq ELSE SubSeq(seq, 1, n)

\* c.most_common(n): heapq.nlargest(n, items, key=count), which is
\* sorted(items, key=count, reverse=True)[:n].
most_common(c, n) == Take(SortedDesc(c), n)

\* c.most_common(): every item, sorted.
most_common_all(c) == SortedDesc(c)

\* sum(int(v) for k, v in c.items() if k.startswith(prefixes))
RECURSIVE SumStartingWith(_, _)
SumStartingWith(c, prefixes) ==
    IF c = <<>> THEN 0
    ELSE (IF startswith(Head(c)[1], prefixes) THEN Head(c)[2] ELSE 0)
         + SumStartingWith(Tail(c), prefixes)


(***************************************************************************)
(* Floats.  A ratio of two ints is kept as the pair <<a, b>>, b > 0, and   *)
(* compared exactly: for the counts reached here the correctly rounded     *)
(* quotient compares with 0.3, with a threshold and with another quotient  *)
(* as the exact ratios do.                                                 *)
(***************************************************************************)

\* a / b if b else 0.0
Ratio(a, b) == IF b # 0 THEN <<a, b>> ELSE <<0, 1>>

\* x > y where the code has x >= y.
RatioGt(x, y) == x[1] * y[2] > y[1] * x[2]

\* x >= y
RatioGe(x, y) == x[1] * y[2] >= y[1] * x[2]

Max(a, b) == IF a >= b THEN a ELSE b

\* round(x, 4), in ten-thousandths: the values it can take.  x is the double
\* nearest a / b; when 10000 a / b lies exactly between two integers, x is
\* that value itself if it is a binary fraction, and round ties to even;
\* otherwise x lies a little to one side, and round follows x.
IsPowerOfTwo(n) == \E k \in 0..30 : 2 ^ k = n

RECURSIVE Gcd(_, _)
Gcd(a, b) == IF b = 0 THEN a ELSE Gcd(b, a % b)

round4(x) ==
    LET scaled == 10000 * x[1]
        floor  == scaled \div x[2]
        twice  == 2 * (scaled % x[2])
    IN  IF twice < x[2] THEN {floor}
        ELSE IF twice > x[2] THEN {floor + 1}
        ELSE IF IsPowerOfTwo(x[2] \div Gcd(x[1], x[2]))
             THEN {IF floor % 2 = 0 THEN floor ELSE floor + 1}
             ELSE {floor, floor + 1}

(***************************************************************************)
(* analyze.                                                                *)
(***************************************************************************)

VARIABLES
    top_n,                \* keyword argument
    error_rate_threshold, \* keyword argument, a ratio <<a, b>>
    consumed,             \* the input read so far, as runs <<line, count>>
    pc,                   \* "loop" while reading lines, "done" after return
    total_lines, parsed, parse_failures,
    endpoints, status_codes, ips, ip_errors, ip_suspicious_hits,
    time_first, time_last,
    error_requests,       \* local of the return path, None until then
    error_rate,           \* local of the return path, a ratio, None until then
    suspicious_ips,       \* local of the return path, None until then
    report                \* the returned dict, None until analyze returns

vars == <<top_n, error_rate_threshold, consumed, pc, total_lines, parsed,
          parse_failures, endpoints, status_codes, ips, ip_errors,
          ip_suspicious_hits, time_first, time_last, error_requests,
          error_rate, suspicious_ips, report>>

\* The loop's variables as one record.
Locals ==
    [total_lines |-> total_lines, parsed |-> parsed,
     parse_failures |-> parse_failures, endpoints |-> endpoints,
     status_codes |-> status_codes, ips |-> ips, ip_errors |-> ip_errors,
     ip_suspicious_hits |-> ip_suspicious_hits,
     time_first |-> time_first, time_last |-> time_last]

\* any(snippet in endpoint for snippet in SUSPICIOUS_PATH_SNIPPETS)
AnySnippetIn(endpoint) ==
    \E k \in DOMAIN SUSPICIOUS_PATH_SNIPPETS :
        Contains(endpoint, SUSPICIOUS_PATH_SNIPPETS[k])

IsErrorStatus(status) == 400 <= status /\ status <= 599

\* parsed += 1 ahead of the test for None, where the code has it after.
ParseFailureCountsParsed(st) ==
    [st EXCEPT !.total_lines = @ + 1, !.parsed = @ + 1, !.parse_failures = @ + 1]

\* The iteration for a line that does not parse: lines 120-124.
ParseFailure(st) ==
    [st EXCEPT !.total_lines = @ + 1, !.parse_failures = @ + 1]

\* One increment for each snippet found, where the code has one for any.
RECURSIVE IncEach(_, _, _)
IncEach(c, key, times) ==
    IF times = 0 THEN c ELSE IncEach(Inc(c, key), key, times - 1)

SuspiciousHitPerSnippet(hits, endpoint, ip) ==
    IncEach(hits, ip,
            Cardinality({k \in DOMAIN SUSPICIOUS_PATH_SNIPPETS :
                            Contains(endpoint, SUSPICIOUS_PATH_SNIPPETS[k])}))

\* Lines 135-136, on the counter ip_suspicious_hits.
SuspiciousHit(hits, endpoint, ip) ==
    IF AnySnippetIn(endpoint) THEN Inc(hits, ip) ELSE hits

\* One iteration of the loop over the lines, for a line parsed to entry
\* (None: no match) whose timestamp normalised to ts (None: ValueError).
Aggregate(st, entry, ts) ==
    IF entry = None
    THEN ParseFailure(st)
    ELSE
      LET endpoint == _strip_query(entry.path)
      IN  [st EXCEPT
             !.total_lines = @ + 1,
             !.parsed = @ + 1,
             !.endpoints = Inc(@, endpoint),
             !.status_codes = Inc(@, str(entry.status)),
             !.ips = Inc(@, entry.ip),
             !.ip_errors = IF IsErrorStatus(entry.status) THEN Inc(@, entry.ip) ELSE @,
             !.ip_suspicious_hits = SuspiciousHit(@, endpoint, entry.ip),
             !.time_first = IF ts = None THEN @
                            ELSE IF @ = None \/ Before(ts, @) THEN ts ELSE @,
             !.time_last  = IF ts = None THEN @
                            ELSE IF @ = None \/ Before(@, ts) THEN ts ELSE @]

\* The iteration repeated for count equal lines: the first half of them,
\* then the rest.
RECURSIVE AggregateRun(_, _, _, _)
AggregateRun(st, entry, ts, count) ==
    IF count = 0 THEN st
    ELSE IF count = 1 THEN Aggregate(st, entry, ts)
    ELSE CHOOSE after \in
             {AggregateRun(half, entry, ts, count - count \div 2) :
                 half \in {AggregateRun(st, entry, ts, count \div 2)}} : TRUE



\* The constants of the detection policy and of the report.
VolumeFloor == 100
ErrorCheckMinRequests == 20
IpErrorRateFloor == <<3, 10>>
SuspiciousHitsFloor == 5
IssueIpLimit == 20
TopIpLimit == 10

\* Lines 171-175, and the same with req_count > suspicious_volume_threshold
\* where the code has >=.
is_suspicious_above(req_count, ip_err_rate, suspicious_hits, suspicious_volume_threshold) ==
    \/ req_count > suspicious_volume_threshold
    \/ (req_count >= ErrorCheckMinRequests /\ RatioGe(ip_err_rate, IpErrorRateFloor))
    \/ suspicious_hits >= SuspiciousHitsFloor

is_suspicious(req_count, ip_err_rate, suspicious_hits, suspicious_volume_threshold) ==
    \/ req_count >= suspicious_volume_threshold
    \/ (req_count >= ErrorCheckMinRequests /\ RatioGe(ip_err_rate, IpErrorRateFloor))
    \/ suspicious_hits >= SuspiciousHitsFloor

\* The per-IP verdicts of the detector, for the ranked <<ip, count>> items:
\* the SuspiciousIp of every item that meets a criterion, in their order.
\* error_rate is round(ip_err_rate, 4) in ten-thousandths, a value of round4.
RECURSIVE SuspiciousIps(_, _, _)
SuspiciousIps(ranked, st, suspicious_volume_threshold) ==
    IF ranked = <<>> THEN {<<>>}
    ELSE
      LET ip              == Head(ranked)[1]
          req_count       == Head(ranked)[2]
          err_count       == Get(st.ip_errors, ip)
          ip_err_rate     == Ratio(err_count, req_count)
          suspicious_hits == Get(st.ip_suspicious_hits, ip)
          rest            == SuspiciousIps(Tail(ranked), st, suspicious_volume_threshold)
      IN  IF is_suspicious(req_count, ip_err_rate, suspicious_hits,
                           suspicious_volume_threshold)
          THEN {<<[ip |-> ip, requests |-> req_count, error_rate |-> r,
                   suspicious_path_hits |-> suspicious_hits]>> \o tail :
                    r \in round4(ip_err_rate), tail \in rest}
          ELSE rest

\* max(100, int(0.2 * total_requests)): the double 0.2 * n truncates to
\* n div 5 for every n below 2^50.
VolumeThreshold(total_requests) == Max(VolumeFloor, (2 * total_requests) \div 10)

\* [{"endpoint": ep, "count": c} for ep, c in items]
EndpointDicts(items) ==
    [i \in DOMAIN items |-> [endpoint |-> items[i][1], count |-> items[i][2]]]

\* [{"ip": ip, "count": c} for ip, c in items]
IpDicts(items) ==
    [i \in DOMAIN items |-> [ip |-> items[i][1], count |-> items[i][2]]]

\* error_requests, line 147.
ErrorRequests(st) == SumStartingWith(st.status_codes, {"4", "5"})

\* error_rate, line 148.
ErrorRate(st) == Ratio(ErrorRequests(st), st.parsed)

\* Everything analyze does after the loop: its locals error_requests and
\* error_rate and the report it returns.  There is one outcome, unless a
\* rounding falls on a tie that the double decides.
Returns(st, n, threshold) ==
    LET total_requests == st.parsed
        unique_ips     == Len(st.ips)
        suspicious_volume_threshold == VolumeThreshold(total_requests)
        overall(rounded) ==
            IF total_requests = 0
            THEN <<[type |-> "no_data",
                    message |-> "No valid log lines were parsed."]>>
            ELSE IF RatioGe(ErrorRate(st), threshold)
            THEN <<[type |-> "high_error_rate",
                    message |-> "High proportion of 4xx/5xx responses.",
                    error_rate |-> rounded,
                    threshold |-> threshold]>>
            ELSE <<>>
        per_ip(flagged) ==
            IF total_requests # 0 /\ flagged # <<>>
            THEN <<[type |-> "suspicious_ip_activity",
                    message |-> "IPs with unusual volume/errors/sensitive endpoints.",
                    ips |-> Take(flagged, IssueIpLimit),
                    volume_threshold |-> suspicious_volume_threshold]>>
            ELSE <<>>
    IN  { [suspicious_ips |-> flagged,
           error_requests |-> ErrorRequests(st),
           error_rate |-> ErrorRate(st),
           report |->
             [summary |->
                [total_lines |-> st.total_lines,
                 parsed_requests |-> total_requests,
                 parse_failures |-> st.parse_failures,
                 unique_ips |-> unique_ips,
                 error_rate_4xx_5xx |-> rounded,
                 time_range |->
                    [first |-> IF st.time_first # None
                               THEN isoformat(st.time_first) ELSE None,
                     last  |-> IF st.time_last # None
                               THEN isoformat(st.time_last) ELSE None]],
              top_endpoints |-> EndpointDicts(most_common(st.endpoints, n)),
              status_code_breakdown |-> st.status_codes,
              top_ips |-> IpDicts(most_common(st.ips, TopIpLimit)),
              issues |-> overall(rounded) \o per_ip(flagged)]]
          : rounded \in round4(ErrorRate(st)),
            flagged \in
              IF total_requests # 0
              THEN SuspiciousIps(most_common_all(st.ips), st,
                                 suspicious_volume_threshold)
              ELSE {<<>>} }

(***************************************************************************)
(* The inputs.  Four families of line sequences are read: single lines of  *)
(* Corpus (every kind of line once), single lines of ProbeCorpus (requests *)
(* to the sensitive paths), runs of equal lines from BulkMenu that reach   *)
(* the detector's thresholds, and short runs from RankMenu that make       *)
(* endpoints of equal count; the last two with or without the Crowd of     *)
(* many IPs.                                                               *)
(***************************************************************************)

MaxLines == 3
MaxProbeLines == 5
MaxRuns == 2
MaxRankRuns == 3
MaxTopN == 2
CrowdSize == 31

\* The command line's defaults for the keyword arguments.
DefaultTopN == 10
DefaultThreshold == <<1, 10>>

\* One access-log line.
LogLine(ip, time, request, status, size) ==
    ip \o " - - [" \o time \o "] \"" \o request \o "\" " \o status \o " " \o size

Corpus ==
    { LogLine("10.0.0.1", "10/Oct/2024:13:55:36 +0000", "GET /a HTTP/1.1", "200", "10"),
      LogLine("10.0.0.2", "10/Oct/2024:14:55:36 +0100", "GET /b?next=/login HTTP/1.1", "404", "-"),
      LogLine("10.0.0.1", "10/Oct/2024:13:55:35 +0000", "POST /admin/login", "500", "12"),
      LogLine("10.0.0.2", "yesterday", "GET /a HTTP/1.1", "040", "5"),
      LogLine("10.0.0.3", "11/Oct/2024:00:00:00 +0000", "GET /wp-admin HTTP/1.1", "302", "x") \o "\n",
      LogLine("10.0.0.3", "10/Oct/2024:19:00:00 -0500", "GET /b HTTP/1.1", "200", "1"),
      LogLine("10.0.0.1", "10/Oct/2024:13:55:36 +0000", "GET /a HTTP/1.1", "2000", "10"),
      "heartbeat ok" }

Thresholds == {<<0 - 1, 2>>, <<0, 1>>, <<1, 2>>, <<1, 1>>, <<3, 2>>}

ProbeLine(ip, request) ==
    LogLine(ip, "10/Oct/2024:13:55:40 +0000", request, "200", "512")

ProbeCorpus ==
    { ProbeLine("10.0.0.5", "GET /admin HTTP/1.1"),
      ProbeLine("10.0.0.5", "GET /wp-login HTTP/1.1"),
      ProbeLine("10.0.0.5", "GET /phpmyadmin HTTP/1.1"),
      ProbeLine("10.0.0.5", "GET /.env HTTP/1.1"),
      ProbeLine("10.0.0.5", "POST /login HTTP/1.1"),
      ProbeLine("10.0.0.5", "GET /wp-admin HTTP/1.1"),
      ProbeLine("10.0.0.5", "GET /search?next=/admin HTTP/1.1"),
      ProbeLine("10.0.0.6", "GET /admin/login HTTP/1.1") }

\* Runs of equal lines from two IPs, their lengths on either side of the
\* detector's thresholds: 14 + 6 and 15 + 5 requests make 20 with an error
\* rate of 0.3 and of 0.25; 200 + 800 and 199 + 801 make 1000.
BulkLine(ip, request, status) ==
    LogLine(ip, "10/Oct/2024:13:55:36 +0000", request, status, "10")

BulkMenu ==
    {<<BulkLine("10.0.0.1", "GET /a HTTP/1.1", "200"), n>> :
        n \in {14, 15, 99, 100, 199, 200}}
    \cup {<<BulkLine("10.0.0.1", "GET /b HTTP/1.1", "404"), n>> : n \in {5, 6, 19}}
    \cup {<<BulkLine("10.0.0.1", "GET /admin HTTP/1.1", "200"), n>> : n \in {4, 5}}
    \cup {<<BulkLine("10.0.0.2", "GET /a HTTP/1.1", "200"), n>> : n \in {800, 801}}

\* Short runs to three endpoints, two of them of equal count, one reached
\* with and without a query string.
RankMenu ==
    { <<BulkLine("10.0.0.1", "GET /a HTTP/1.1", "200"), 3>>,
      <<BulkLine("10.0.0.2", "GET /b HTTP/1.1", "200"), 3>>,
      <<BulkLine("10.0.0.3", "GET /c HTTP/1.1", "200"), 5>>,
      <<BulkLine("10.0.0.2", "GET /a?page=2 HTTP/1.1", "404"), 2>> }

\* The crowd: CrowdSize further IPs, the i-th making 4, 5 or 6 requests to a
\* sensitive path of its own.
CrowdLine(i) ==
    BulkLine("10.0.1." \o str(i),
             "GET " \o SUSPICIOUS_PATH_SNIPPETS[(i % 6) + 1]
                    \o (IF i % 2 = 0 THEN "" ELSE ".php") \o " HTTP/1.1",
             "200")

Crowd == [i \in 1..CrowdSize |-> <<CrowdLine(i), 4 + (i % 3)>>]

\* Every line of the inputs.
Lines ==
    Corpus \cup ProbeCorpus \cup {run[1] : run \in BulkMenu \cup RankMenu}
    \cup {Crowd[i][1] : i \in DOMAIN Crowd}

\* parse_log_line(line) and, for a line that parsed, the normalised
\* timestamp of its entry, tabulated over the lines of the inputs: both are
\* pure, and each line is parsed once however often the loop meets it.
Entries == [line \in Lines |-> parse_log_line(line)]

Timestamps ==
    [line \in Lines |->
        IF Entries[line] = None THEN None
        ELSE _try_parse_apache_time(Entries[line].timestamp_raw)]

\* The loop body for a run of count lines equal to line.
LoopBody(st, line, count) ==
    AggregateRun(st, Entries[line], Timestamps[line], count)

\* The loop body for the runs of a batch, in turn.
RECURSIVE LoopBodies(_, _)
LoopBodies(st, runs) ==
    IF runs = <<>> THEN st
    ELSE CHOOSE after \in
             {LoopBodies(next, Tail(runs)) :
                 next \in {LoopBody(st, Head(runs)[1], Head(runs)[2])}} : TRUE

(***************************************************************************)
(* analyze as a state machine: the call, one step per line read, and the   *)
(* return.                                                                 *)
(***************************************************************************)

\* The state after lines 106-117, for the given keyword arguments.
Called(n, threshold) ==
    /\ top_n = n
    /\ error_rate_threshold = threshold
    /\ consumed = <<>>
    /\ pc = "loop"
    /\ total_lines = 0
    /\ parsed = 0
    /\ parse_failures = 0
    /\ endpoints = Counter
    /\ status_codes = Counter
    /\ ips = Counter
    /\ ip_errors = Counter
    /\ ip_suspicious_hits = Counter
    /\ time_first = None
    /\ time_last = None
    /\ error_requests = None
    /\ error_rate = None
    /\ suspicious_ips = None
    /\ report = None

\* The loop reads the runs of a batch.
Read(runs) ==
    /\ pc = "loop"
    /\ consumed' = consumed \o runs
    /\ \E st \in {LoopBodies(Locals, runs)} :
           /\ total_lines' = st.total_lines
           /\ parsed' = st.parsed
           /\ parse_failures' = st.parse_failures
           /\ endpoints' = st.endpoints
           /\ status_codes' = st.status_codes
           /\ ips' = st.ips
           /\ ip_errors' = st.ip_errors
           /\ ip_suspicious_hits' = st.ip_suspicious_hits
           /\ time_first' = st.time_first
           /\ time_last' = st.time_last
    /\ UNCHANGED <<top_n, error_rate_threshold, pc, error_requests, error_rate,
                   suspicious_ips, report>>

\* The input is exhausted: lines 145-213.
Finish ==
    /\ pc = "loop"
    /\ pc' = "done"
    /\ \E r \in Returns(Locals, top_n, error_rate_threshold) :
          /\ error_requests' = r.error_requests
          /\ error_rate' = r.error_rate
          /\ suspicious_ips' = r.suspicious_ips
          /\ report' = r.report
    /\ UNCHANGED <<top_n, error_rate_threshold, consumed, total_lines, parsed,
                   parse_failures, endpoints, status_codes, ips, ip_errors,
                   ip_suspicious_hits, time_first, time_last>>

\* Lines of Corpus, one at a time, under any error-rate threshold.
Init == \E threshold \in Thresholds : Called(DefaultTopN, threshold)

ReadLine ==
    /\ Len(consumed) < MaxLines
    /\ \E line \in Corpus : Read(<< <<line, 1>> >>)

Next == ReadLine \/ Finish

Spec == Init /\ [][Next]_vars

\* Lines of ProbeCorpus, one at a time.
InitProbe == Called(DefaultTopN, DefaultThreshold)

ReadProbe ==
    /\ Len(consumed) < MaxProbeLines
    /\ \E line \in ProbeCorpus : Read(<< <<line, 1>> >>)

NextProbe == ReadProbe \/ Finish

SpecProbe == InitProbe /\ [][NextProbe]_vars

\* The Crowd or not, then up to MaxRuns runs of BulkMenu.
InitBulk == Called(DefaultTopN, DefaultThreshold)

CrowdRead == consumed # <<>> /\ consumed[1] = Crowd[1]

ReadRun ==
    /\ Len(consumed) < MaxRuns + (IF CrowdRead THEN Len(Crowd) ELSE 0)
    /\ \E run \in BulkMenu : Read(<<run>>)

ReadCrowd ==
    /\ consumed = <<>>
    /\ Read(Crowd)

NextBulk == ReadRun \/ ReadCrowd \/ Finish

SpecBulk == InitBulk /\ [][NextBulk]_vars

\* The Crowd or not, then up to MaxRankRuns runs of RankMenu, under any top_n.
InitRank == \E n \in (0..MaxTopN) \cup {DefaultTopN} : Called(n, DefaultThreshold)

ReadRanked ==
    /\ Len(consumed) < MaxRankRuns + (IF CrowdRead THEN Len(Crowd) ELSE 0)
    /\ \E run \in RankMenu : Read(<<run>>)

NextRank == ReadRanked \/ ReadCrowd \/ Finish

SpecRank == InitRank /\ [][NextRank]_vars

(***************************************************************************)
(* The vocabulary of the properties.  They are stated on the input read so *)
(* far (consumed) and on the lines' entries, not on the counters the loop  *)
(* keeps: what each counter should hold is recounted from the input.       *)
(***************************************************************************)

RunLine(k) == consumed[k][1]

RunLength(k) == consumed[k][2]

\* The number of lines in the runs K of the input.
RECURSIVE Weight(_)
Weight(K) ==
    IF K = {} THEN 0
    ELSE LET k == CHOOSE k \in K : TRUE
         IN  RunLength(k) + Weight(K \ {k})

\* The runs whose line matched the grammar, and the entry of such a run.
ParsedRuns == {k \in DOMAIN consumed : Entries[RunLine(k)] # None}

EntryOf(k) == Entries[RunLine(k)]

\* The path of a request up to its first question mark.
BeforeQuery(path) ==
    IF \E i \in 1..Len(path) : Char(path, i) = "?"
    THEN SubSeq(path, 1,
                (CHOOSE i \in 1..Len(path) :
                    /\ Char(path, i) = "?"
                    /\ \A j \in 1..(i - 1) : Char(path, j) # "?") - 1)
    ELSE path

\* The markers that occur in an endpoint.
MarkersIn(endpoint) ==
    { SUSPICIOUS_PATH_SNIPPETS[m] : m \in
        { n \in DOMAIN SUSPICIOUS_PATH_SNIPPETS :
            \E i \in 0..(Len(endpoint) - Len(SUSPICIOUS_PATH_SNIPPETS[n])) :
                SubSeq(endpoint, i + 1, i + Len(SUSPICIOUS_PATH_SNIPPETS[n]))
                    = SUSPICIOUS_PATH_SNIPPETS[n] } }

\* For every line of the inputs: its endpoint ("" when it does not parse)
\* and whether its endpoint holds a marker.
EndpointOfLine ==
    [line \in Lines |->
        IF Entries[line] = None THEN "" ELSE BeforeQuery(Entries[line].path)]

SensitiveLine ==
    [line \in Lines |-> Entries[line] # None /\ MarkersIn(EndpointOfLine[line]) # {}]

\* Whether a line has a marker in its path and none before the query string.
MarkerInQueryAlone ==
    [line \in Lines |->
        /\ Entries[line] # None
        /\ MarkersIn(Entries[line].path) # {}
        /\ MarkersIn(EndpointOfLine[line]) = {}]

\* Whether a status is a 4xx or a 5xx.
ClientOrServerError(status) == (400 <= status /\ status <= 499) \/ (500 <= status /\ status <= 599)

\* The runs of one IP, and the IPs and endpoints of the input.
RunsOf(ip) == {k \in ParsedRuns : EntryOf(k).ip = ip}

SeenIps == {EntryOf(k).ip : k \in ParsedRuns}

SeenEndpoints == {EndpointOfLine[RunLine(k)] : k \in ParsedRuns}

\* What the input says of one IP: where it first appears and how many
\* requests, error responses and requests to sensitive endpoints it made.
FactsOf(ip) ==
    [ip       |-> ip,
     first    |-> CHOOSE k \in RunsOf(ip) : \A j \in RunsOf(ip) : k <= j,
     requests |-> Weight(RunsOf(ip)),
     errors   |-> Weight({k \in RunsOf(ip) : ClientOrServerError(EntryOf(k).status)}),
     hits     |-> Weight({k \in RunsOf(ip) : SensitiveLine[RunLine(k)]})]

IpFacts == {FactsOf(ip) : ip \in SeenIps}

\* The sum of the counts of a counter, and the count it holds for a key.
RECURSIVE SumCounts(_)
SumCounts(c) == IF c = <<>> THEN 0 ELSE Head(c)[2] + SumCounts(Tail(c))

Keys(c) == {c[i][1] : i \in DOMAIN c}

Tally(c, key) == SumCounts(SelectSeq(c, LAMBDA item : item[1] = key))

Least(a, b) == IF a <= b THEN a ELSE b

\* The issues of a type in the report.
IssuesOfType(type) == {i \in DOMAIN report.issues : report.issues[i].type = type}

\* max(100, floor(0.2 * parsed count)), the parsed count taken from the input.
ClaimedVolumeThreshold ==
    IF Weight(ParsedRuns) \div 5 > 100 THEN Weight(ParsedRuns) \div 5 ELSE 100

\* The three criteria, on the facts of an IP.
Qualifies(f, threshold) ==
    \/ f.requests >= threshold
    \/ (f.requests >= 20 /\ 10 * f.errors >= 3 * f.requests)
    \/ f.hits >= 5

\* A counter lists the keys of the parsed runs in the order of their first
\* use, each with the number of lines that have it.
FirstUse(key, x) ==
    CHOOSE k \in ParsedRuns : key[k] = x /\ \A j \in ParsedRuns : j < k => key[j] # x

Tallies(c, key) ==
    /\ Keys(c) = {key[k] : k \in ParsedRuns}
    /\ \A i \in DOMAIN c : c[i][2] = Weight({k \in ParsedRuns : key[k] = c[i][1]})
    /\ \A i \in DOMAIN c :
          i < Len(c) => FirstUse(key, c[i][1]) < FirstUse(key, c[i + 1][1])

\* The place of the j-th item of a counter when the items are ordered by
\* count descending, equal counts in the counter's order.
Place(c, j) ==
    1 + Cardinality({i \in DOMAIN c :
                        c[i][2] > c[j][2] \/ (c[i][2] = c[j][2] /\ i < j)})

(***************************************************************************)
(* C1.  After any prefix of the input, and in the final report:            *)
(* total_lines = parsed + parse_failures; parsed is the sum of the per-IP  *)
(* request counts, of the status-code counts and of the endpoint counts;   *)
(* unique_ips is the number of distinct IPs among the parsed entries.      *)
(***************************************************************************)
C1_CounterSums ==
    /\ total_lines = Weight(DOMAIN consumed)
    /\ parsed = Weight(ParsedRuns)
    /\ total_lines = parsed + parse_failures
    /\ parsed = SumCounts(ips)
    /\ parsed = SumCounts(status_codes)
    /\ parsed = SumCounts(endpoints)
    /\ Len(ips) = Cardinality(SeenIps)
    /\ Keys(ips) = SeenIps
    /\ pc = "done" =>
          /\ report.summary.total_lines
                = report.summary.parsed_requests + report.summary.parse_failures
          /\ report.summary.total_lines = Weight(DOMAIN consumed)
          /\ report.summary.parsed_requests = Weight(ParsedRuns)
          /\ SumCounts(report.status_code_breakdown) = report.summary.parsed_requests
          /\ report.summary.unique_ips = Cardinality(SeenIps)

\* C1's case: a report on an input with a line that failed to parse and
\* parsed entries of several IPs, endpoints and status codes.
C1_Witness ==
    /\ pc = "done"
    /\ parse_failures > 0
    /\ Cardinality(SeenIps) >= 2
    /\ Len(endpoints) >= 2
    /\ Len(status_codes) >= 2

(***************************************************************************)
(* C2.  The overall error rate is in [0, 1]; with parsed requests it is    *)
(* (entries of status 400-499 + entries of status 500-599) / parsed        *)
(* requests, before rounding; with none it is 0.                           *)
(***************************************************************************)
C2_ErrorRate ==
    pc = "done" =>
        /\ 0 <= error_rate[1] /\ error_rate[1] <= error_rate[2]
        /\ Weight(ParsedRuns) > 0 =>
              error_rate[1] * Weight(ParsedRuns)
                 = error_rate[2] * Weight({k \in ParsedRuns :
                                             ClientOrServerError(EntryOf(k).status)})
        /\ Weight(ParsedRuns) = 0 => error_rate[1] = 0

(***************************************************************************)
(* C3.  The verdict on the traffic as a whole.  With no parsed entry the   *)
(* issues are one no_data issue and nothing else.  With parsed entries     *)
(* there is no no_data issue, and a high_error_rate issue is present       *)
(* exactly when the overall error rate >= error_rate_threshold: never for  *)
(* a threshold > 1, always for a threshold <= 0.                           *)
(***************************************************************************)
C3_Verdict ==
    pc = "done" =>
        /\ Weight(ParsedRuns) = 0 =>
              /\ Len(report.issues) = 1
              /\ report.issues[1].type = "no_data"
        /\ Weight(ParsedRuns) > 0 =>
              /\ IssuesOfType("no_data") = {}
              /\ Cardinality(IssuesOfType("high_error_rate")) <= 1
              /\ IssuesOfType("high_error_rate") # {}
                    <=> error_rate[1] * error_rate_threshold[2]
                           >= error_rate_threshold[1] * error_rate[2]
              /\ error_rate_threshold[1] > error_rate_threshold[2]
                    => IssuesOfType("high_error_rate") = {}
              /\ error_rate_threshold[1] <= 0
                    => IssuesOfType("high_error_rate") # {}
              /\ \A i \in IssuesOfType("high_error_rate") :
                    report.issues[i].threshold = error_rate_threshold

\* C3's case: an error rate that equals the threshold, and the issue raised.
C3_Witness ==
    /\ pc = "done"
    /\ parsed > 0
    /\ error_rate_threshold = <<1, 2>>
    /\ 2 * error_rate[1] = error_rate[2]
    /\ IssuesOfType("high_error_rate") # {}

\* The IPs the detector flagged.
FlaggedIps == {suspicious_ips[i].ip : i \in DOMAIN suspicious_ips}

\* The place of a qualifying IP among the qualifying IPs ordered by request
\* count descending, equal counts in the order of first appearance.
Ahead(f, g) ==
    f.requests > g.requests \/ (f.requests = g.requests /\ f.first < g.first)

PlaceAmong(f, qualifying) == 1 + Cardinality({g \in qualifying : Ahead(g, f)})

\* In a step: the run it read, and whether it read one.
LastRun == consumed'[Len(consumed')]

ReadsOneRun == Len(consumed') = Len(consumed) + 1

\* The five endpoints of the probing scenario.
FiveProbes == {"/admin", "/wp-login", "/phpmyadmin", "/.env", "/login"}

\* The part of C8 that its example does not touch: the hit counts recounted
\* from the input, a marker in the query string alone adding none, and the
\* five requests that make a count of 5 and a flagged IP.
HitsCounted ==
    /\ Keys(ip_suspicious_hits) \subseteq SeenIps
    /\ \A ip \in SeenIps :
          \E mine \in {RunsOf(ip)}, hits \in {Tally(ip_suspicious_hits, ip)} :
              /\ hits = Weight({k \in mine : SensitiveLine[RunLine(k)]})
              /\ (\A k \in mine : MarkerInQueryAlone[RunLine(k)]) => hits = 0
              /\ ({EndpointOfLine[RunLine(k)] : k \in mine} = FiveProbes
                    /\ Weight(mine) = 5)
                    => /\ hits = 5
                       /\ pc = "done" => ip \in FlaggedIps

\* The runs whose timestamp normalises, the instant of such a run, the order
\* of instants, and the first run to attain the least and the greatest.
TimedRuns == {k \in ParsedRuns : Timestamps[RunLine(k)] # None}

When(k) == Instant(Timestamps[RunLine(k)])

Earlier(x, y) ==
    \/ x[1] < y[1]
    \/ x[1] = y[1] /\ x[2] < y[2]
    \/ x[1] = y[1] /\ x[2] = y[2] /\ x[3] < y[3]

EarliestRun ==
    CHOOSE k \in TimedRuns :
        \A j \in TimedRuns :
            /\ ~Earlier(When(j), When(k))
            /\ j < k => Earlier(When(k), When(j))

LatestRun ==
    CHOOSE k \in TimedRuns :
        \A j \in TimedRuns :
            /\ ~Earlier(When(k), When(j))
            /\ j < k => Earlier(When(j), When(k))

\* The state part of C9: the bounds after a prefix of the input.
C9_Bounds ==
    IF TimedRuns = {}
    THEN time_first = None /\ time_last = None
    ELSE /\ time_first = Timestamps[RunLine(EarliestRun)]
         /\ time_last = Timestamps[RunLine(LatestRun)]
         /\ ~Earlier(Instant(time_last), Instant(time_first))

\* The step part of C9: reading a parsed entry whose timestamp does not
\* normalise.
C9_Step ==
    (/\ ReadsOneRun
     /\ Entries[LastRun[1]] # None
     /\ Timestamps[LastRun[1]] = None) =>
        /\ UNCHANGED <<time_first, time_last>>
        /\ total_lines' = total_lines + LastRun[2]
        /\ parsed' = parsed + LastRun[2]
        /\ parse_failures' = parse_failures
        /\ Tally(ips', Entries[LastRun[1]].ip)
              = Tally(ips, Entries[LastRun[1]].ip) + LastRun[2]
        /\ Tally(endpoints', EndpointOfLine[LastRun[1]])
              = Tally(endpoints, EndpointOfLine[LastRun[1]]) + LastRun[2]
        /\ SumCounts(status_codes') = SumCounts(status_codes) + LastRun[2]

(***************************************************************************)
(* C4.  With parsed entries, and the volume threshold                      *)
(* max(100, floor(0.2 * parsed count)), an observed IP is marked           *)
(* suspicious exactly when its request count >= the volume threshold, or   *)
(* its request count >= 20 and its error count / request count >= 0.3, or  *)
(* its suspicious-path-hit count >= 5.  With 1000 parsed requests the      *)
(* threshold is 200: an IP with 200 requests is flagged, one with 199 and  *)
(* no other trigger is not.                                                *)
(***************************************************************************)
C4_Detector ==
    (pc = "done" /\ Weight(ParsedRuns) > 0) =>
        \E facts \in {IpFacts}, threshold \in {ClaimedVolumeThreshold} :
            /\ FlaggedIps \subseteq SeenIps
            /\ \A f \in facts : f.ip \in FlaggedIps <=> Qualifies(f, threshold)
            /\ Weight(ParsedRuns) = 1000 =>
                  /\ threshold = 200
                  /\ \A f \in facts :
                        /\ f.requests = 200 => f.ip \in FlaggedIps
                        /\ (f.requests = 199 /\ 10 * f.errors < 3 * f.requests /\ f.hits < 5)
                              => f.ip \notin FlaggedIps

\* C4's case: 1000 parsed requests, 200 of them from one IP that has no
\* errors and no sensitive requests, and that IP flagged.
C4_Witness ==
    /\ pc = "done"
    /\ Weight(ParsedRuns) = 1000
    /\ \E i \in DOMAIN suspicious_ips :
          /\ suspicious_ips[i].requests = 200
          /\ suspicious_ips[i].error_rate = 0
          /\ suspicious_ips[i].suspicious_path_hits = 0
          /\ Weight(RunsOf(suspicious_ips[i].ip)) = 200

(***************************************************************************)
(* C5.  For every top_n >= 0, top_endpoints is the first                   *)
(* min(top_n, number of distinct endpoints) of the endpoints ordered by    *)
(* count descending, equal counts in the order the endpoints were first    *)
(* met in the input (top_n = 0: the empty list); top_ips is the same       *)
(* ordering of the IPs cut to 10 whatever top_n is.  So /a (3 hits, seen    *)
(* first), /b (3 hits, seen second) and /c (5 hits) with top_n = 2 give    *)
(* /c: 5, /a: 3.                                                           *)
(***************************************************************************)
C5_Ranking ==
    pc = "done" =>
        /\ Tallies(endpoints, [k \in ParsedRuns |-> EndpointOfLine[RunLine(k)]])
        /\ Tallies(ips, [k \in ParsedRuns |-> EntryOf(k).ip])
        /\ Len(report.top_endpoints) = Least(top_n, Cardinality(SeenEndpoints))
        /\ \A j \in DOMAIN endpoints :
              Place(endpoints, j) <= top_n =>
                 /\ report.top_endpoints[Place(endpoints, j)].endpoint = endpoints[j][1]
                 /\ report.top_endpoints[Place(endpoints, j)].count = endpoints[j][2]
        /\ Len(report.top_ips) = Least(10, Cardinality(SeenIps))
        /\ \A j \in DOMAIN ips :
              Place(ips, j) <= 10 =>
                 /\ report.top_ips[Place(ips, j)].ip = ips[j][1]
                 /\ report.top_ips[Place(ips, j)].count = ips[j][2]
        /\ top_n = 0 => report.top_endpoints = <<>>
        /\ (/\ top_n = 2
            /\ Len(consumed) = 3
            /\ EndpointOfLine[RunLine(1)] = "/a" /\ RunLength(1) = 3
            /\ EndpointOfLine[RunLine(2)] = "/b" /\ RunLength(2) = 3
            /\ EndpointOfLine[RunLine(3)] = "/c" /\ RunLength(3) = 5)
              => report.top_endpoints = << [endpoint |-> "/c", count |-> 5],
                                           [endpoint |-> "/a", count |-> 3] >>

\* C5's case: more endpoints than top_n and more than 10 IPs, so that both
\* lists are cut, and two listed endpoints of equal count.
C5_Witness ==
    /\ pc = "done"
    /\ top_n >= 2
    /\ Cardinality(SeenEndpoints) > top_n
    /\ Len(report.top_endpoints) = top_n
    /\ report.top_endpoints[1].count = report.top_endpoints[2].count
    /\ Cardinality(SeenIps) > 10
    /\ Len(report.top_ips) = 10
    /\ top_n # 10

(***************************************************************************)
(* C6.  A suspicious_ip_activity issue is emitted exactly when some        *)
(* observed IP meets the criteria, and at most one is; its ips are the     *)
(* first 20 qualifying IPs in descending order of request count, equal     *)
(* counts in the order the IPs were first met (those after the 20th are    *)
(* left out), and it carries the volume threshold that was used.           *)
(***************************************************************************)
C6_Issue ==
    pc = "done" =>
        \E threshold \in {ClaimedVolumeThreshold} :
        \E qualifying \in {{f \in IpFacts : Qualifies(f, threshold)}} :
            /\ Cardinality(IssuesOfType("suspicious_ip_activity")) <= 1
            /\ IssuesOfType("suspicious_ip_activity") # {} <=> qualifying # {}
            /\ \A i \in IssuesOfType("suspicious_ip_activity") :
                  /\ Len(report.issues[i].ips) = Least(20, Cardinality(qualifying))
                  /\ report.issues[i].volume_threshold = threshold
                  /\ \A f \in qualifying :
                        \E place \in {PlaceAmong(f, qualifying)} :
                            place <= 20 =>
                               /\ report.issues[i].ips[place].ip = f.ip
                               /\ report.issues[i].ips[place].requests = f.requests
                               /\ report.issues[i].ips[place].suspicious_path_hits = f.hits

\* C6's case: more than 20 qualifying IPs, and the issue listing 20.
C6_Witness ==
    /\ pc = "done"
    /\ Cardinality(FlaggedIps) > 20
    /\ \E i \in IssuesOfType("suspicious_ip_activity") :
          /\ Len(report.issues[i].ips) = 20
          /\ report.issues[i].ips[1].requests > report.issues[i].ips[20].requests

(***************************************************************************)
(* C7.  Reading a line that does not match the grammar adds one to         *)
(* parse_failures and to the total of lines and changes nothing else: the  *)
(* parsed count, the endpoint, status-code, IP, IP-error and               *)
(* IP-suspicious-hit counters and the time bounds stay as they were, and   *)
(* the loop goes on.                                                       *)
(***************************************************************************)
C7_Frame ==
    [][ (ReadsOneRun /\ Entries[LastRun[1]] = None) =>
          /\ parse_failures' = parse_failures + LastRun[2]
          /\ total_lines' = total_lines + LastRun[2]
          /\ UNCHANGED <<parsed, endpoints, status_codes, ips, ip_errors,
                         ip_suspicious_hits, time_first, time_last>>
          /\ pc' = "loop" ]_vars

\* C7's case: a line that does not match is the last read, after parsed
\* entries that filled the counters and the time bounds.
C7_Witness ==
    /\ consumed # <<>>
    /\ Entries[RunLine(Len(consumed))] = None
    /\ parse_failures = 1
    /\ parsed >= 2
    /\ ip_suspicious_hits # <<>>
    /\ time_first # None

(***************************************************************************)
(* C8.  Each IP's suspicious-path-hit count is the number of its parsed    *)
(* entries whose endpoint (the path without its query string) contains at  *)
(* least one of the six markers: a line adds at most one however many      *)
(* markers match (/admin/login matches both /admin and /login), a marker   *)
(* in the query string alone adds none; so an IP that makes one request    *)
(* each to /admin, /wp-login, /phpmyadmin, /.env and /login has count 5    *)
(* and is flagged, with no errors and low volume.                          *)
(***************************************************************************)
C8_SuspiciousHits ==
    /\ HitsCounted
    /\ \A k \in ParsedRuns :
          EndpointOfLine[RunLine(k)] = "/admin/login" =>
             /\ {"/admin", "/login"} \subseteq MarkersIn(EndpointOfLine[RunLine(k)])
             /\ Tally(ip_suspicious_hits, EntryOf(k).ip)
                   <= Weight(RunsOf(EntryOf(k).ip))

\* C8 with the example as the claim words it: /wp-admin matches both
\* /wp-admin and /admin.
C8_AsWorded ==
    /\ HitsCounted
    /\ \A k \in ParsedRuns :
          EndpointOfLine[RunLine(k)] = "/wp-admin" =>
             {"/wp-admin", "/admin"} \subseteq MarkersIn(EndpointOfLine[RunLine(k)])

\* C8's case: the five requests, one each, from an IP with no errors, and
\* the IP flagged with a count of 5.
C8_Witness ==
    /\ pc = "done"
    /\ \E i \in DOMAIN suspicious_ips :
          /\ {EndpointOfLine[RunLine(k)] : k \in RunsOf(suspicious_ips[i].ip)} = FiveProbes
          /\ suspicious_ips[i].requests = 5
          /\ suspicious_ips[i].suspicious_path_hits = 5
          /\ suspicious_ips[i].error_rate = 0

(***************************************************************************)
(* C9.  After any prefix of the input the two time bounds are both absent, *)
(* exactly when no parsed entry so far had a timestamp that normalises, or *)
(* both present with earliest <= latest: earliest is the first entry read  *)
(* that attains the least instant and latest the first entry read that     *)
(* attains the greatest.  A parsed entry whose timestamp does not          *)
(* normalise leaves both bounds as they were and is counted in every other *)
(* counter.                                                                *)
(***************************************************************************)
C9_TimeBounds == []C9_Bounds /\ [][C9_Step]_vars

\* C9's case: two entries of one instant written in two time zones, the
\* bounds still those of the first of them, and a parsed entry whose
\* timestamp does not normalise.
C9_Witness ==
    /\ \E i, j \in TimedRuns :
          /\ i < j
          /\ When(i) = When(j)
          /\ Timestamps[RunLine(i)] # Timestamps[RunLine(j)]
          /\ time_first = Timestamps[RunLine(i)]
          /\ time_last = Timestamps[RunLine(i)]
    /\ \E k \in ParsedRuns : Timestamps[RunLine(k)] = None

(***************************************************************************)
(* C10.  The two error signals agree: for statuses of any three digits     *)
(* (040 among them) the sum over the IPs of the per-IP error counts is the *)
(* error-request count that the overall error rate uses; and every IP's    *)
(* error count and suspicious-hit count are at most its request count.     *)
(***************************************************************************)
C10_ErrorSignals ==
    /\ pc = "done" => SumCounts(ip_errors) = error_requests
    /\ \A i \in DOMAIN ips :
          /\ Tally(ip_errors, ips[i][1]) <= ips[i][2]
          /\ Tally(ip_suspicious_hits, ips[i][1]) <= ips[i][2]

====
